---- MODULE Spec2Model ----
(***************************************************************************)
(* The Aura keyboard-LED controller of asusctl (CtrlKbdLed) and its D-Bus  *)
(* front end (CtrlKbdLedZbus).                                             *)
(*                                                                         *)
(* The controller struct, the storage file of AuraConfig and the packets   *)
(* written to the device by the operation in progress are the state.  A    *)
(* device write that fails is an input of the operation: `fuel' is the     *)
(* number of device writes that succeed before one fails.                  *)
(***************************************************************************)
EXTENDS Integers, Sequences, FiniteSets, TLC

VARIABLES
    built,                \* "no" | "new" (CtrlKbdLed::new returned Ok) | "literal" (struct literal, as the unit tests build it) | "failed"
    led_prod,             \* CtrlKbdLed.led_prod
    led_node,             \* CtrlKbdLed.led_node: "Rog" | "KbdLed" | "None"
    supported_modes,      \* CtrlKbdLed.supported_modes: [basic_modes, basic_zones]
    flip_effect_write,    \* CtrlKbdLed.flip_effect_write
    per_key_mode_active,  \* CtrlKbdLed.per_key_mode_active
    config,               \* CtrlKbdLed.config (AuraConfig in memory)
    storage,              \* the AuraConfig file: <<>> when there is none, <<cfg>> otherwise
    writes,               \* packets the last operation wrote to the device, in order
    last,                 \* the last operation: its name, arguments and result
    lock,                 \* the Mutex around the controller: 0 when free, else the handler holding it
    pc,                   \* per D-Bus handler: "idle" | "waiting" | "locked" | "notify" | "dropped"
    req,                  \* per D-Bus handler: the request it holds the Mutex or waits for it with, then the effect it notifies
    signal,               \* the notification emitted by the step just taken: <<>> or <<data>>
    ret,                  \* the value a property accessor returns by the step just taken: <<>> or <<value>>
    emit,                 \* per D-Bus handler: the packets of its operation and how many of them are on the device
    wire,                 \* the last packet put on the device: its handler and its index in the operation
    init_sent,            \* history: the per-key initialization packet was written since per_key_mode_active was last cleared
    cycle                 \* history: start mode and count of the forward toggle_mode calls made in a row

vars == <<built, led_prod, led_node, supported_modes, flip_effect_write,
          per_key_mode_active, config, storage, writes, last, lock, pc, req,
          signal, ret, emit, wire, init_sent, cycle>>

ctrlVars == <<built, led_prod, led_node, supported_modes>>
zbusVars == <<lock, pc, req, signal, ret, emit, wire>>

(***************************************************************************)
(* Bounds of the model.                                                    *)
(***************************************************************************)
MaxModes == 3       \* longest basic_modes sequence
MaxZones == 2       \* longest basic_zones sequence
NumHandlers == 2    \* D-Bus handlers that may run at once
MaxRows == 2        \* longest block given to write_effect_block
MaxControls == 3    \* AuraControl values a request may name

(***************************************************************************)
(* Values of rog_aura.                                                     *)
(***************************************************************************)
ModeNames == <<"Static", "Breathe", "Strobe", "Rainbow", "Star", "Rain">>
ZoneNames == <<"Key1", "Key2", "Key3", "Key4">>
ZoneNone == "None"

GRADIENT == <<"RED", "VIOLET", "BLUE", "TEAL", "GREEN", "YELLOW", "ORANGE">>

ASUS_KEYBOARD_DEVICES == <<"X1854", "X1869">>

Off == 0
Med == 2
High == 3

RECURSIVE Reverse(_)
Reverse(s) == IF s = <<>> THEN <<>> ELSE Append(Reverse(Tail(s)), Head(s))

Range(s) == {s[i] : i \in 1..Len(s)}

\* Vec::contains
Contains(s, x) == \E i \in 1..Len(s) : s[i] = x

\* Iterator::position: 0 stands for None, i for Some(i-1)
Position(s, x) ==
    IF Contains(s, x) THEN CHOOSE i \in 1..Len(s) : s[i] = x /\ \A j \in 1..(i-1) : s[j] /= x
    ELSE 0

\* <[T]>::get with a fallback (get(i).unwrap_or(d)); i is the 0-based index
GetOr(s, i, d) == IF i >= 0 /\ i < Len(s) THEN s[i + 1] ELSE d

(***************************************************************************)
(* Inputs.                                                                 *)
(***************************************************************************)
\* the LaptopLedData values a laptop may give
LaptopLedData(modes, zones) == [basic_modes |-> modes, basic_zones |-> zones]

Capabilities ==
    { LaptopLedData(SubSeq(ModeNames, 1, 1), <<>>),
      LaptopLedData(Reverse(SubSeq(ModeNames, 1, MaxModes)), <<>>),
      LaptopLedData(SubSeq(ModeNames, 1, 1), SubSeq(ZoneNames, 1, MaxZones)),
      LaptopLedData(Reverse(SubSeq(ModeNames, 1, 2)), SubSeq(ZoneNames, 1, 1)) }

\* a mode no laptop of Capabilities supports
UnsupportedMode == ModeNames[MaxModes + 1]

\* modes and zones a caller may name
InputModes == {ModeNames[1], UnsupportedMode}
InputZones == {ZoneNone, ZoneNames[MaxZones]}

AuraEffect(mode, zone, colour1, colour2, speed, direction) ==
    [mode |-> mode, zone |-> zone, colour1 |-> colour1, colour2 |-> colour2,
     speed |-> speed, direction |-> direction]

\* the effects a caller may ask for
EffectInputs ==
    { AuraEffect(m, z, "USER", "BLACK", "Med", "Right") : m \in InputModes, z \in InputZones }

NullEffect == AuraEffect("-", "-", "-", "-", "-", "-")

\* a request of the D-Bus interface: the method, its effect argument and,
\* once the method has run, the effect it notifies (<<>>: none)
Request(op, effect, led) == [op |-> op, effect |-> effect, led |-> led]
NoRequest == Request("none", NullEffect, <<>>)

\* fuel: the number of device writes that succeed before one fails; an
\* operation that makes at most n writes is given 0..n (n: no write fails)
Fuels(n) == 0..n

(***************************************************************************)
(* AuraConfig.                                                             *)
(***************************************************************************)
AuraConfig(brightness, current_mode, builtins, multizone, multizone_on, enabled) ==
    [brightness |-> brightness, current_mode |-> current_mode, builtins |-> builtins,
     multizone |-> multizone, multizone_on |-> multizone_on, enabled |-> enabled]

\* AuraEffect::default_with_mode
DefaultEffect(mode) == AuraEffect(mode, ZoneNone, "DEFAULT", "BLACK", "Med", "Right")

\* the per-zone default set: one effect per zone, colours from GRADIENT
MultizoneDefault(mode, zones) ==
    [i \in 1..Len(zones) |->
        AuraEffect(mode, zones[i],
                   GetOr(GRADIENT, i - 1, GRADIENT[1]),
                   GetOr(GRADIENT, Len(GRADIENT) - (i - 1), GRADIENT[7]),
                   "Med", "Left")]

\* AuraConfig::new / from_default_support: the fresh default of a laptop
AuraConfigNew(caps) ==
    AuraConfig(Med, "Static",
               [m \in Range(caps.basic_modes) |-> DefaultEffect(m)],
               IF caps.basic_zones = <<>> THEN <<>>
               ELSE << [m \in Range(caps.basic_modes) |-> MultizoneDefault(m, caps.basic_zones)] >>,
               FALSE, <<>>)

\* the configuration of a struct-literal controller: the default of a laptop
\* with no modes and no zones (LaptopLedData::default())
LiteralConfig == AuraConfigNew(LaptopLedData(<<>>, <<>>))

NullConfig == AuraConfig(Off, "-", <<>>, <<>>, FALSE, <<>>)

\* an effect a storage file may hold
LoadedEffect(mode, zone) == AuraEffect(mode, zone, "LOADED", "BLACK", "High", "Left")

\* the per-mode sets a storage file may hold under "Static"
LoadedSets ==
    { << LoadedEffect("Static", ZoneNames[1]) >>,
      << LoadedEffect("Static", ZoneNames[1]), LoadedEffect(UnsupportedMode, ZoneNames[2]) >> }

\* contents a storage file may have
LoadedFiles ==
    { AuraConfig(b, cm, [m \in D |-> LoadedEffect(m, ZoneNone)], mz, on, <<>>) :
        b \in {Off, High},
        cm \in {"Static", ModeNames[2], UnsupportedMode},
        D \in {{}, {"Static"}, {ModeNames[2], UnsupportedMode}, {"Static", UnsupportedMode}},
        mz \in {<<>>} \cup { << [m \in {"Static"} |-> set] >> : set \in LoadedSets },
        on \in BOOLEAN }

\* the contents the operations are explored from
FewFiles ==
    { f \in LoadedFiles :
        /\ f.builtins = [m \in {ModeNames[2], UnsupportedMode} |-> LoadedEffect(m, ZoneNone)]
        /\ f.current_mode = "Static"
        /\ f.multizone = <<>>
        /\ f.multizone_on
        /\ f.brightness = Off }

\* StdConfigLoad::load: the file's content, or the value it is called on
Load(init, file) == IF file = <<>> THEN init ELSE file[1]

\* StdConfig::read: refresh the in-memory config from the file
config_read(s) == IF s.storage = <<>> THEN s ELSE [s EXCEPT !.config = s.storage[1]]

\* StdConfig::write
config_write(s) == [s EXCEPT !.storage = <<s.config>>]

\* AuraConfig::set_builtin
set_builtin(cfg, effect) ==
    [cfg EXCEPT !.current_mode = effect.mode,
                !.builtins = [m \in DOMAIN cfg.builtins \cup {effect.mode} |->
                                 IF m = effect.mode THEN effect ELSE cfg.builtins[m]]]

(***************************************************************************)
(* The controller's state as one value, threaded through an operation.     *)
(* res is "Ok" until a step fails: a step after `?' runs only on "Ok".     *)
(***************************************************************************)
St == [config |-> config, storage |-> storage,
       per_key_mode_active |-> per_key_mode_active,
       flip_effect_write |-> flip_effect_write,
       writes |-> <<>>, res |-> "Ok"]

Ok(s) == s.res = "Ok"

Fail(s, err) == [s EXCEPT !.res = err]

\* a packet on its way to the device: its kind and, of its payload, the zone
\* of the effect or the brightness level it carries
Packet(kind, zone, level) == [kind |-> kind, zone |-> zone, level |-> level]
LED_SET == Packet("LED_SET", "-", 0)
LED_APPLY == Packet("LED_APPLY", "-", 0)

\* HidRaw::write_bytes, KeyboardLed::set_kbd_rgb_mode, KeyboardLed::set_brightness:
\* the write succeeds while fewer than fuel writes were made, else it fails
write_bytes(s, fuel, pkt) ==
    IF Len(s.writes) < fuel THEN [s EXCEPT !.writes = Append(@, pkt)]
    ELSE Fail(s, "Platform")

(***************************************************************************)
(* CtrlKbdLed: the operations.                                             *)
(***************************************************************************)
\* CtrlKbdLed::set_brightness
set_brightness(s, fuel) ==
    write_bytes(s, fuel, Packet("brightness", "-", s.config.brightness))

\* next_brightness with the wrap one level late
next_brightness_late_wrap(s, fuel) ==
    LET bright == IF s.config.brightness + 1 > 4 THEN 0 ELSE s.config.brightness + 1
        s1 == [s EXCEPT !.config.brightness = bright]
    IN  set_brightness(config_write(s1), fuel)

\* CtrlKbdLed::next_brightness
next_brightness(s, fuel) ==
    LET bright == IF s.config.brightness + 1 > 3 THEN 0 ELSE s.config.brightness + 1
        s1 == [s EXCEPT !.config.brightness = bright]
    IN  set_brightness(config_write(s1), fuel)

\* CtrlKbdLed::prev_brightness
prev_brightness(s, fuel) ==
    LET bright == IF s.config.brightness = 0 THEN 3 ELSE s.config.brightness - 1
        s1 == [s EXCEPT !.config.brightness = bright]
    IN  set_brightness(config_write(s1), fuel)

\* write_mode that leaves per_key_mode_active as it is
write_mode_flag_kept(s, mode, fuel) ==
    IF led_node = "KbdLed" THEN
        write_bytes(s, fuel, Packet("kbd_rgb_mode", mode.zone, 0))
    ELSE IF led_node = "Rog" THEN
        LET s1 == write_bytes(s, fuel, Packet("effect", mode.zone, 0))
            s2 == IF Ok(s1) THEN write_bytes(s1, fuel, LED_SET) ELSE s1
        IN  IF Ok(s2) THEN write_bytes(s2, fuel, LED_APPLY) ELSE s2
    ELSE Fail(s, "NoAuraKeyboard")

\* write_mode that leaves out the apply command
write_mode_no_apply(s, mode, fuel) ==
    IF led_node = "KbdLed" THEN
        LET s1 == write_bytes(s, fuel, Packet("kbd_rgb_mode", mode.zone, 0))
        IN  IF Ok(s1) THEN [s1 EXCEPT !.per_key_mode_active = FALSE] ELSE s1
    ELSE IF led_node = "Rog" THEN
        LET s1 == write_bytes(s, fuel, Packet("effect", mode.zone, 0))
            s2 == IF Ok(s1) THEN write_bytes(s1, fuel, LED_SET) ELSE s1
        IN  IF Ok(s2) THEN [s2 EXCEPT !.per_key_mode_active = FALSE] ELSE s2
    ELSE Fail(s, "NoAuraKeyboard")

\* CtrlKbdLed::write_mode
write_mode(s, mode, fuel) ==
    IF led_node = "KbdLed" THEN
        LET s1 == write_bytes(s, fuel, Packet("kbd_rgb_mode", mode.zone, 0))
        IN  IF Ok(s1) THEN [s1 EXCEPT !.per_key_mode_active = FALSE] ELSE s1
    ELSE IF led_node = "Rog" THEN
        LET s1 == write_bytes(s, fuel, Packet("effect", mode.zone, 0))
            s2 == IF Ok(s1) THEN write_bytes(s1, fuel, LED_SET) ELSE s1
            s3 == IF Ok(s2) THEN write_bytes(s2, fuel, LED_APPLY) ELSE s2
        IN  IF Ok(s3) THEN [s3 EXCEPT !.per_key_mode_active = FALSE] ELSE s3
    ELSE Fail(s, "NoAuraKeyboard")

\* create_multizone_default without the check for an empty default
create_multizone_default_unchecked(s) ==
    LET cur == s.config.current_mode
        default == MultizoneDefault(cur, supported_modes.basic_zones)
        old == s.config.multizone
    IN  IF old /= <<>> THEN
            [s EXCEPT !.config.multizone =
                << [m \in DOMAIN old[1] \cup {cur} |-> IF m = cur THEN default ELSE old[1][m]] >>]
        ELSE [s EXCEPT !.config.multizone = << [m \in {cur} |-> default] >>]

\* create_multizone_default that replaces the map by one holding the new set alone
create_multizone_default_replacing(s) ==
    LET cur == s.config.current_mode
        default == MultizoneDefault(cur, supported_modes.basic_zones)
    IN  IF default = <<>> THEN Fail(s, "AuraEffectNotSupported")
        ELSE [s EXCEPT !.config.multizone = << [m \in {cur} |-> default] >>]

\* create_multizone_default that stores the set only in a map that exists
create_multizone_default_some_only(s) ==
    LET cur == s.config.current_mode
        default == MultizoneDefault(cur, supported_modes.basic_zones)
        old == s.config.multizone
    IN  IF default = <<>> THEN Fail(s, "AuraEffectNotSupported")
        ELSE IF old /= <<>> THEN
            [s EXCEPT !.config.multizone =
                << [m \in DOMAIN old[1] \cup {cur} |-> IF m = cur THEN default ELSE old[1][m]] >>]
        ELSE s

\* CtrlKbdLed::create_multizone_default
create_multizone_default(s) ==
    LET cur == s.config.current_mode
        default == MultizoneDefault(cur, supported_modes.basic_zones)
        old == s.config.multizone
    IN  IF default = <<>> THEN Fail(s, "AuraEffectNotSupported")
        ELSE IF old /= <<>> THEN
            [s EXCEPT !.config.multizone =
                << [m \in DOMAIN old[1] \cup {cur} |-> IF m = cur THEN default ELSE old[1][m]] >>]
        ELSE [s EXCEPT !.config.multizone = << [m \in {cur} |-> default] >>]

\* the loop of write_current_config_mode over the stored set
RECURSIVE write_set(_, _, _)
write_set(s, set, fuel) ==
    IF set = <<>> THEN s
    ELSE LET s1 == write_mode(s, Head(set), fuel)
         IN  IF Ok(s1) THEN write_set(s1, Tail(set), fuel) ELSE s1

\* CtrlKbdLed::write_current_config_mode
write_current_config_mode(s, fuel) ==
    LET mode == s.config.current_mode IN
    IF s.config.multizone_on THEN
        LET create == \/ s.config.multizone = <<>>
                      \/ mode \notin DOMAIN s.config.multizone[1]
            s1 == IF create THEN create_multizone_default(s) ELSE s
        IN  IF ~Ok(s1) THEN s1
            ELSE IF s1.config.multizone /= <<>> /\ mode \in DOMAIN s1.config.multizone[1]
            THEN write_set(s1, s1.config.multizone[1][mode], fuel)
            ELSE s1
    ELSE IF mode \in DOMAIN s.config.builtins
         THEN write_mode(s, s.config.builtins[mode], fuel)
         ELSE s

\* toggle_index wrapping one element early when going forward
toggle_index_early_wrap(idx, len, reverse) ==
    IF reverse THEN (IF idx = 1 THEN len ELSE idx - 1)
    ELSE (IF idx + 1 >= len THEN 1 ELSE idx + 1)

\* the index toggle_mode moves to (1-based)
toggle_index(idx, len, reverse) ==
    IF reverse THEN (IF idx = 1 THEN len ELSE idx - 1)
    ELSE (IF idx + 1 = len + 1 THEN 1 ELSE idx + 1)

\* toggle_mode refreshing the config from the file before it looks for current_mode
toggle_mode_read_first(s, reverse, fuel) ==
    LET modes == supported_modes.basic_modes
        s1 == config_read(s)
        idx == Position(modes, s1.config.current_mode)
    IN  IF idx = 0 THEN s1
        ELSE LET next == modes[toggle_index(idx, Len(modes), reverse)]
                 s2 == [s1 EXCEPT !.config.current_mode = next]
                 s3 == write_current_config_mode(s2, fuel)
             IN  IF Ok(s3) THEN config_write(s3) ELSE s3

\* CtrlKbdLed::toggle_mode
toggle_mode(s, reverse, fuel) ==
    LET modes == supported_modes.basic_modes
        idx == Position(modes, s.config.current_mode)
    IN  IF idx = 0 THEN s
        ELSE LET next == modes[toggle_index(idx, Len(modes), reverse)]
                 s1 == config_read(s)
                 s2 == [s1 EXCEPT !.config.current_mode = next]
                 s3 == write_current_config_mode(s2, fuel)
             IN  IF Ok(s3) THEN config_write(s3) ELSE s3

\* the check of the mode alone
effect_supported_mode_only(effect) ==
    Contains(supported_modes.basic_modes, effect.mode)

\* the check set_effect makes of the effect against the laptop's modes and zones
effect_supported(effect) ==
    ~ ( \/ ~Contains(supported_modes.basic_modes, effect.mode)
        \/ /\ effect.zone /= ZoneNone
           /\ ~Contains(supported_modes.basic_zones, effect.zone) )

\* set_effect refreshing the config from the file before the effect is written
set_effect_early_read(s, effect, fuel) ==
    IF ~effect_supported(effect) THEN Fail(s, "AuraEffectNotSupported")
    ELSE LET s1 == write_mode(config_read(s), effect, fuel)
             s3 == [s1 EXCEPT !.config = set_builtin(@, effect)]
             s4 == IF s3.config.brightness = Off
                   THEN [s3 EXCEPT !.config.brightness = Med] ELSE s3
         IN  IF Ok(s1) THEN set_brightness(config_write(s4), fuel) ELSE s1

\* set_effect persisting the config it holds, without refreshing it from the file
set_effect_no_read(s, effect, fuel) ==
    IF ~effect_supported(effect) THEN Fail(s, "AuraEffectNotSupported")
    ELSE LET s1 == write_mode(s, effect, fuel)
             s3 == [s1 EXCEPT !.config = set_builtin(@, effect)]
             s4 == IF s3.config.brightness = Off
                   THEN [s3 EXCEPT !.config.brightness = Med] ELSE s3
         IN  IF Ok(s1) THEN set_brightness(config_write(s4), fuel) ELSE s1

\* CtrlKbdLed::set_effect
set_effect(s, effect, fuel) ==
    IF ~effect_supported(effect) THEN Fail(s, "AuraEffectNotSupported")
    ELSE LET s1 == write_mode(s, effect, fuel)
             s2 == config_read(s1)
             s3 == [s2 EXCEPT !.config = set_builtin(@, effect)]
             s4 == IF s3.config.brightness = Off
                   THEN [s3 EXCEPT !.config.brightness = Med] ELSE s3
         IN  IF Ok(s1) THEN set_brightness(config_write(s4), fuel) ELSE s1

(***************************************************************************)
(* CtrlKbdLed::write_effect_block.  A block (UsbPackets) is a sequence of  *)
(* rows; a row is known by its type byte (byte 1) and its place in the     *)
(* block.                                                                  *)
(***************************************************************************)
PER_KEY_TYPE == 188
\* byte 1 of a raw packet that is not a per-key row (the power-state message)
POWER_STATE_TYPE == 189

Row(type, i) == [type |-> type, i |-> i]

\* the blocks a caller may send: per-key frames and factory-mode blocks of 1..MaxRows rows
BlockInputs ==
    { [i \in 1..n |-> Row(type, i)] : n \in 1..MaxRows, type \in {PER_KEY_TYPE, POWER_STATE_TYPE} }

\* LedUsbPackets::get_init_msg
INIT_MSG == Packet("init", "-", 0)

\* the brightness raised without being persisted
raise_brightness_unsaved(s) ==
    IF s.config.brightness = Off THEN [s EXCEPT !.config.brightness = Med] ELSE s

\* write_effect_block: brightness Off is raised to Med and the config written
raise_brightness(s) ==
    IF s.config.brightness = Off
    THEN config_write([s EXCEPT !.config.brightness = Med])
    ELSE s

\* per-key mode entered by its flag alone
per_key_init_flag_only(s, fuel) ==
    [s EXCEPT !.per_key_mode_active = TRUE]

\* write_effect_block: the initialization packet of a frame that enters per-key mode
per_key_init(s, fuel) ==
    IF ~s.per_key_mode_active THEN
        LET s1 == IF led_node = "Rog" THEN write_bytes(s, fuel, INIT_MSG) ELSE s
        IN  IF Ok(s1) THEN [s1 EXCEPT !.per_key_mode_active = TRUE] ELSE s1
    ELSE s

\* write_effect_block: the loop over the rows, from row i on
RECURSIVE write_rows(_, _, _, _, _)
write_rows(s, effect, i, kind, fuel) ==
    IF i > Len(effect) THEN s
    ELSE LET s1 == write_bytes(s, fuel, Packet(kind, "-", effect[i].i))
         IN  IF Ok(s1) THEN write_rows(s1, effect, i + 1, kind, fuel) ELSE s1

\* CtrlKbdLed::write_effect_block
write_effect_block(s, effect, fuel) ==
    LET s0 == raise_brightness(s)
        pkt_type == effect[1].type
    IN  IF pkt_type /= PER_KEY_TYPE THEN
            LET s1 == [s0 EXCEPT !.per_key_mode_active = FALSE]
            IN  IF led_node = "Rog" THEN
                    LET s2 == write_bytes(s1, fuel, Packet("block", "-", effect[1].i))
                    IN  IF Ok(s2) THEN write_bytes(s2, fuel, LED_SET) ELSE s2
                ELSE s1
        ELSE
            LET s1 == per_key_init(s0, fuel)
                s2 == IF ~Ok(s1) THEN s1
                      ELSE IF led_node = "Rog" THEN write_rows(s1, effect, 1, "row", fuel)
                      ELSE IF led_node = "KbdLed" THEN write_rows(s1, effect, 1, "kbd_rgb_mode", fuel)
                      ELSE s1
            IN  IF Ok(s2) THEN [s2 EXCEPT !.flip_effect_write = ~s2.flip_effect_write] ELSE s2

(***************************************************************************)
(* CtrlKbdLed::new.                                                        *)
(***************************************************************************)
\* what opening the device nodes may give: hid[i] says whether HidRaw::new
\* succeeds for ASUS_KEYBOARD_DEVICES[i]; sysfs is the result of
\* KeyboardLed::new: "err", or Ok with ("rgb") or without ("plain") kbd_rgb_mode
HidProbes == [1..Len(ASUS_KEYBOARD_DEVICES) -> BOOLEAN]
SysfsProbes == {"err", "plain", "rgb"}

\* the loop over ASUS_KEYBOARD_DEVICES: the index of the first product whose
\* node opens, 0 when none does
usb_node(hid) ==
    IF \E i \in DOMAIN hid : hid[i]
    THEN CHOOSE i \in DOMAIN hid : hid[i] /\ \A j \in 1..(i - 1) : ~hid[j]
    ELSE 0

\* the result of new before the config is loaded: the error, or the node
new_node(hid, sysfs) ==
    IF sysfs = "err" THEN "Platform"
    ELSE IF usb_node(hid) = 0 /\ sysfs /= "rgb" THEN "NoAuraKeyboard"
    ELSE IF usb_node(hid) /= 0 THEN "Rog"
    ELSE IF sysfs = "rgb" THEN "KbdLed"
    ELSE "None"

\* the merge that keeps the loaded modes as well
merge_builtins_keep_loaded(init, loaded) ==
    [m \in DOMAIN init \cup DOMAIN loaded |-> IF m \in DOMAIN loaded THEN loaded[m] ELSE init[m]]

\* the builtins of the merged config: the initialised entries, each replaced
\* by the loaded entry of its mode when there is one
merge_builtins(init, loaded) ==
    [m \in DOMAIN init |-> IF m \in DOMAIN loaded THEN loaded[m] ELSE init[m]]

\* the effects of a loaded set whose mode the laptop supports, in order
RECURSIVE supported_only(_, _)
supported_only(set, caps) ==
    IF set = <<>> THEN <<>>
    ELSE IF Contains(caps.basic_modes, Head(set).mode)
         THEN <<Head(set)>> \o supported_only(Tail(set), caps)
         ELSE supported_only(Tail(set), caps)

\* the multizone of the merged config
merge_multizone(init, loaded, caps) ==
    IF init /= <<>> /\ loaded /= <<>> THEN
        << [m \in DOMAIN init[1] |->
              IF m \in DOMAIN loaded[1]
              THEN supported_only(loaded[1][m], caps)
              ELSE init[1][m]] >>
    ELSE loaded

\* the config of the controller new returns
new_config(caps, file) ==
    LET config_init == AuraConfigNew(caps)
        config_loaded == Load(config_init, file)
    IN  [config_loaded EXCEPT
            !.builtins = merge_builtins(config_init.builtins, config_loaded.builtins),
            !.multizone = merge_multizone(config_init.multizone, config_loaded.multizone, caps)]

\* the last operation: its name and result and, of new, what opening the
\* device nodes gave
Last(op, res, usb, sysfs) == [op |-> op, res |-> res, usb |-> usb, sysfs |-> sysfs]

NoCycle == [start |-> "-", n |-> 0]

\* no operation of the handler is writing; nothing was written since the Mutex was released
NoPackets == [pkts |-> <<>>, n |-> 0]
NoWrite == [h |-> 0, n |-> 0]

Start(files) ==
    /\ built = "no"
    /\ led_prod = "Unknown"
    /\ led_node = "None"
    /\ supported_modes = LaptopLedData(<<>>, <<>>)
    /\ flip_effect_write = FALSE
    /\ per_key_mode_active = FALSE
    /\ config = NullConfig
    /\ storage \in {<<>>} \cup {<<f>> : f \in files}
    /\ writes = <<>>
    /\ last = Last("none", "Ok", 0, "-")
    /\ lock = 0
    /\ pc = [h \in 1..NumHandlers |-> "idle"]
    /\ req = [h \in 1..NumHandlers |-> NoRequest]
    /\ signal = <<>>
    /\ ret = <<>>
    /\ emit = [h \in 1..NumHandlers |-> NoPackets]
    /\ wire = NoWrite
    /\ init_sent = FALSE
    /\ cycle = NoCycle

\* CtrlKbdLed::new(supported_modes)
New(caps, hid, sysfs) ==
    /\ built = "no"
    /\ LET node == new_node(hid, sysfs)
           ok == node \in {"Rog", "KbdLed", "None"}
       IN  /\ built' = IF ok THEN "new" ELSE "failed"
           /\ led_prod' = IF ok /\ usb_node(hid) /= 0
                          THEN ASUS_KEYBOARD_DEVICES[usb_node(hid)] ELSE "Unknown"
           /\ led_node' = IF ok THEN node ELSE "None"
           /\ supported_modes' = IF ok THEN caps ELSE supported_modes
           /\ config' = IF ok THEN new_config(caps, storage) ELSE config
           /\ last' = Last("new", IF ok THEN "Ok" ELSE node, usb_node(hid), sysfs)
    /\ UNCHANGED <<flip_effect_write, per_key_mode_active, init_sent, storage, writes, cycle>>
    /\ UNCHANGED zbusVars

\* the controller built as a struct literal with no device node, as in the unit tests
Literal(caps) ==
    /\ built = "no"
    /\ storage = <<>>
    /\ built' = "literal"
    /\ led_prod' = "X19b6"
    /\ led_node' = "None"
    /\ supported_modes' = caps
    /\ config' = LiteralConfig
    /\ last' = Last("literal", "Ok", 0, "-")
    /\ UNCHANGED <<flip_effect_write, per_key_mode_active, init_sent, storage, writes, cycle>>
    /\ UNCHANGED zbusVars

(***************************************************************************)
(* Calls of the controller's operations by a caller that owns it.          *)
(***************************************************************************)
Usable == built \in {"new", "literal"} /\ lock = 0

Commit(s) ==
    /\ config' = s.config
    /\ storage' = s.storage
    /\ per_key_mode_active' = s.per_key_mode_active
    /\ flip_effect_write' = s.flip_effect_write
    /\ writes' = s.writes
    /\ init_sent' = IF Contains(s.writes, INIT_MSG) THEN TRUE
                    ELSE IF ~s.per_key_mode_active THEN FALSE
                    ELSE init_sent

\* the forward toggles made in a row, counted up to the length of basic_modes
Counted(reverse) ==
    IF reverse \/ Position(supported_modes.basic_modes, config.current_mode) = 0 THEN NoCycle
    ELSE IF cycle.n >= 1 /\ cycle.n < Len(supported_modes.basic_modes)
         THEN [cycle EXCEPT !.n = @ + 1]
         ELSE [start |-> config.current_mode, n |-> 1]

SetEffect(effect, fuel) ==
    /\ Usable
    /\ LET s == set_effect(St, effect, fuel)
       IN  Commit(s) /\ last' = Last("set_effect", s.res, 0, "-")
    /\ cycle' = NoCycle
    /\ UNCHANGED ctrlVars /\ UNCHANGED zbusVars

ToggleMode(reverse, fuel) ==
    /\ Usable
    /\ LET s == toggle_mode(St, reverse, fuel)
       IN  Commit(s) /\ last' = Last("toggle_mode", s.res, 0, "-")
    /\ cycle' = Counted(reverse)
    /\ UNCHANGED ctrlVars /\ UNCHANGED zbusVars

NextBrightness(fuel) ==
    /\ Usable
    /\ LET s == next_brightness(St, fuel)
       IN  Commit(s) /\ last' = Last("next_brightness", s.res, 0, "-")
    /\ cycle' = NoCycle
    /\ UNCHANGED ctrlVars /\ UNCHANGED zbusVars

PrevBrightness(fuel) ==
    /\ Usable
    /\ LET s == prev_brightness(St, fuel)
       IN  Commit(s) /\ last' = Last("prev_brightness", s.res, 0, "-")
    /\ cycle' = NoCycle
    /\ UNCHANGED ctrlVars /\ UNCHANGED zbusVars

CreateMultizoneDefault ==
    /\ Usable
    /\ LET s == create_multizone_default(St)
       IN  Commit(s) /\ last' = Last("create_multizone_default", s.res, 0, "-")
    /\ cycle' = NoCycle
    /\ UNCHANGED ctrlVars /\ UNCHANGED zbusVars

WriteCurrentConfigMode(fuel) ==
    /\ Usable
    /\ LET s == write_current_config_mode(St, fuel)
       IN  Commit(s) /\ last' = Last("write_current_config_mode", s.res, 0, "-")
    /\ cycle' = NoCycle
    /\ UNCHANGED ctrlVars /\ UNCHANGED zbusVars

WriteEffectBlock(effect, fuel) ==
    /\ Usable
    /\ LET s == write_effect_block(St, effect, fuel)
       IN  Commit(s) /\ last' = Last("write_effect_block", s.res, 0, "-")
    /\ cycle' = NoCycle
    /\ UNCHANGED ctrlVars /\ UNCHANGED zbusVars

\* the unit tests set config.multizone_on of the controller they built
SetMultizoneOn ==
    /\ Usable
    /\ built = "literal"
    /\ ~config.multizone_on
    /\ config' = [config EXCEPT !.multizone_on = TRUE]
    /\ last' = Last("multizone_on", "Ok", 0, "-")
    /\ writes' = <<>>
    /\ cycle' = NoCycle
    /\ UNCHANGED <<storage, per_key_mode_active, flip_effect_write, init_sent>>
    /\ UNCHANGED ctrlVars /\ UNCHANGED zbusVars

\* the packets write_mode makes of one effect on the node of the controller
EffectWrites == IF led_node = "Rog" THEN 3 ELSE IF led_node = "KbdLed" THEN 1 ELSE 0

\* the most packets write_current_config_mode makes
ModeWrites == IF config.multizone_on /\ supported_modes.basic_zones /= <<>>
              THEN EffectWrites * Len(supported_modes.basic_zones) ELSE EffectWrites

\* the device nodes either all open or none does
FewProbes == {[i \in 1..Len(ASUS_KEYBOARD_DEVICES) |-> b] : b \in BOOLEAN}

Operation ==
    \/ \E effect \in EffectInputs, fuel \in Fuels(EffectWrites + 1) : SetEffect(effect, fuel)
    \/ \E reverse \in BOOLEAN, fuel \in Fuels(ModeWrites) : ToggleMode(reverse, fuel)
    \/ \E fuel \in Fuels(1) : NextBrightness(fuel)
    \/ \E fuel \in Fuels(1) : PrevBrightness(fuel)
    \/ built = "literal" /\ CreateMultizoneDefault   \* private: the unit tests call it
    \/ \E fuel \in Fuels(ModeWrites) : WriteCurrentConfigMode(fuel)
    \/ SetMultizoneOn

Next ==
    \/ \E caps \in Capabilities, hid \in FewProbes, sysfs \in SysfsProbes : New(caps, hid, sysfs)
    \/ \E caps \in Capabilities : Literal(caps)
    \/ Operation

Init == Start(FewFiles)

Spec == Init /\ [][Next]_vars

(***************************************************************************)
(* The controller right after construction, from every storage file: new   *)
(* with every result of opening the device nodes, then one operation.      *)
(***************************************************************************)
Fresh == last.op \in {"new", "literal"}

NextLoad ==
    \/ \E caps \in Capabilities, hid \in HidProbes, sysfs \in SysfsProbes : New(caps, hid, sysfs)
    \/ \E caps \in Capabilities : Literal(caps)
    \/ Fresh /\ CreateMultizoneDefault
    \/ Fresh /\ \E fuel \in Fuels(ModeWrites) : WriteCurrentConfigMode(fuel)
    \/ Fresh /\ \E reverse \in BOOLEAN, fuel \in Fuels(ModeWrites) : ToggleMode(reverse, fuel)

InitLoad == Start(LoadedFiles)

SpecLoad == InitLoad /\ [][NextLoad]_vars

(***************************************************************************)
(* CtrlKbdLedZbus: the D-Bus methods, each run by a handler.  A handler     *)
(* takes the Mutex of the controller, runs the operation, releases the     *)
(* Mutex and then emits its notification.                                  *)
(***************************************************************************)
Handlers == 1..NumHandlers

\* the accessors taking the Mutex with lock() as the mode toggles do
blocking_accessors(op) ==
    op \in {"next_led_mode", "prev_led_mode",
            "leds_enabled", "led_mode", "led_modes", "led_brightness"}

\* the methods that take the Mutex with lock(); the others use try_lock()
Blocking(op) == op \in {"next_led_mode", "prev_led_mode"}

\* the effects a D-Bus caller may ask for
ZbusEffects == {e \in EffectInputs : e.zone = ZoneNone}

ZbusRequests ==
    { Request("set_led_mode", e, <<>>) : e \in ZbusEffects }
    \cup { Request(op, NullEffect, <<>>) :
             op \in {"next_led_mode", "prev_led_mode",
                     "next_led_brightness", "prev_led_brightness"} }

\* config.builtins.get(&config.current_mode)
current_builtin(cfg) ==
    IF cfg.current_mode \in DOMAIN cfg.builtins THEN <<cfg.builtins[cfg.current_mode]>> ELSE <<>>

\* the property accessors
Properties == {"leds_enabled", "led_mode", "led_modes", "led_brightness"}

IsProperty(op) == op \in Properties

PropertyRequests == { Request(op, NullEffect, <<>>) : op \in Properties }

\* what an accessor returns when it has no value to give
BrightnessSentinel == -1
Sentinel(op) ==
    IF op = "leds_enabled" THEN [bytes |-> <<0, 0>>]
    ELSE IF op = "led_mode" THEN [message |-> "SetKeyBacklight could not deserialise"]
    ELSE IF op = "led_modes" THEN [message |-> "SetKeyBacklight could not serialise"]
    ELSE [level |-> BrightnessSentinel]

Returned(op, value) == [op |-> op, value |-> value]

\* AuraControl::to_bytes, serde_json::to_string: the encoded value
to_bytes(enabled) == [bytes |-> enabled]
to_string(value) == [json |-> value]

\* the levels the sysfs brightness attribute may be read at
DeviceLevels == {Off, High}

\* what the accessor computes under the Mutex; fuel 0: get_brightness fails
property_value(op, cfg, fuel, level) ==
    IF op = "leds_enabled" THEN to_bytes(cfg.enabled)
    ELSE IF op = "led_mode" THEN
        (IF current_builtin(cfg) /= <<>> THEN to_string(current_builtin(cfg)[1])
         ELSE Sentinel(op))
    ELSE IF op = "led_modes" THEN to_string(cfg.builtins)
    ELSE (IF fuel = 0 THEN Sentinel(op) ELSE [level |-> level])

\* the operation a method runs while it holds the Mutex
zbus_operation(s, r, fuel) ==
    IF r.op = "set_led_mode" THEN set_effect(s, r.effect, fuel)
    ELSE IF r.op = "next_led_mode" THEN toggle_mode(s, FALSE, fuel)
    ELSE IF r.op = "prev_led_mode" THEN toggle_mode(s, TRUE, fuel)
    ELSE IF r.op = "next_led_brightness" THEN next_brightness(s, fuel)
    ELSE prev_brightness(s, fuel)

\* the value of `led' when the Mutex is released
zbus_led(s, r) ==
    IF r.op = "set_led_mode" THEN (IF Ok(s) THEN current_builtin(s.config) ELSE <<>>)
    ELSE IF r.op \in {"next_led_mode", "prev_led_mode"} THEN current_builtin(s.config)
    ELSE <<>>

\* a Mutex that excludes no one
try_lock_unshared(l) == TRUE

\* Mutex::try_lock on the Mutex all handlers share: it is taken when no handler holds it
try_lock(l) == l = 0

\* a method is called: the handler reaches its lock() or try_lock()
Call(h, r) ==
    /\ built = "new"
    /\ pc[h] = "idle"
    /\ IF try_lock(lock)
       THEN lock' = h /\ pc' = [pc EXCEPT ![h] = "locked"] /\ req' = [req EXCEPT ![h] = r]
       ELSE IF Blocking(r.op)
       THEN lock' = lock /\ pc' = [pc EXCEPT ![h] = "waiting"] /\ req' = [req EXCEPT ![h] = r]
       ELSE lock' = lock /\ pc' = [pc EXCEPT ![h] = "dropped"] /\ req' = req
    /\ signal' = <<>>
    /\ ret' = IF lock /= 0 /\ IsProperty(r.op) THEN <<Returned(r.op, Sentinel(r.op))>> ELSE <<>>
    /\ UNCHANGED <<config, storage, per_key_mode_active, flip_effect_write, init_sent, writes,
                   last, cycle>>
    /\ UNCHANGED ctrlVars /\ UNCHANGED <<emit, wire>>

\* lock() returns once the Mutex is free
Acquire(h) ==
    /\ pc[h] = "waiting"
    /\ lock = 0
    /\ lock' = h
    /\ pc' = [pc EXCEPT ![h] = "locked"]
    /\ signal' = <<>>
    /\ ret' = <<>>
    /\ UNCHANGED <<config, storage, per_key_mode_active, flip_effect_write, init_sent, writes,
                   last, req, cycle>>
    /\ UNCHANGED ctrlVars /\ UNCHANGED <<emit, wire>>

\* the body of the method under the Mutex, up to the release of the guard
Body(h, fuel) ==
    /\ pc[h] = "locked"
    /\ lock = h
    /\ ~IsProperty(req[h].op)
    /\ LET s == zbus_operation(St, req[h], fuel)
           led == zbus_led(s, req[h])
       IN  /\ Commit(s)
           /\ last' = Last(req[h].op, s.res, 0, "-")
           /\ req' = [req EXCEPT ![h] = Request("none", NullEffect, led)]
           /\ pc' = [pc EXCEPT ![h] = IF led /= <<>> THEN "notify" ELSE "idle"]
    /\ lock' = 0
    /\ cycle' = NoCycle
    /\ signal' = <<>>
    /\ ret' = <<>>
    /\ UNCHANGED ctrlVars /\ UNCHANGED <<emit, wire>>

\* the body of a property accessor under the Mutex, up to its return
Read(h, fuel, level) ==
    /\ pc[h] = "locked"
    /\ lock = h
    /\ IsProperty(req[h].op)
    /\ ret' = <<Returned(req[h].op, property_value(req[h].op, config, fuel, level))>>
    /\ req' = [req EXCEPT ![h] = NoRequest]
    /\ pc' = [pc EXCEPT ![h] = "idle"]
    /\ lock' = 0
    /\ signal' = <<>>
    /\ UNCHANGED <<config, storage, per_key_mode_active, flip_effect_write, init_sent, writes,
                   last, cycle>>
    /\ UNCHANGED ctrlVars /\ UNCHANGED <<emit, wire>>

\* notify_led
Notify(h) ==
    /\ pc[h] = "notify"
    /\ signal' = req[h].led
    /\ ret' = <<>>
    /\ pc' = [pc EXCEPT ![h] = "idle"]
    /\ req' = [req EXCEPT ![h] = NoRequest]
    /\ UNCHANGED <<config, storage, per_key_mode_active, flip_effect_write, init_sent, writes,
                   last, lock, cycle>>
    /\ UNCHANGED ctrlVars /\ UNCHANGED <<emit, wire>>

\* the method returns without having taken the Mutex
Return(h) ==
    /\ pc[h] = "dropped"
    /\ pc' = [pc EXCEPT ![h] = "idle"]
    /\ signal' = <<>>
    /\ ret' = <<>>
    /\ UNCHANGED <<config, storage, per_key_mode_active, flip_effect_write, init_sent, writes,
                   last, lock, req, cycle>>
    /\ UNCHANGED ctrlVars /\ UNCHANGED <<emit, wire>>

\* the laptops the D-Bus interface is explored on: those with several modes
ZbusCapabilities == {c \in Capabilities : Len(c.basic_modes) >= 2 /\ c.basic_zones /= <<>>}

\* a device write of the method fails at once (0) or none does
ZbusFuels == {0, EffectWrites + 1}

NextZbus ==
    \/ \E caps \in ZbusCapabilities, hid \in FewProbes : New(caps, hid, "rgb")
    \/ \E h \in Handlers, r \in ZbusRequests : Call(h, r)
    \/ \E h \in Handlers : Acquire(h)
    \/ \E h \in Handlers, fuel \in ZbusFuels : Body(h, fuel)
    \/ \E h \in Handlers : Notify(h)
    \/ \E h \in Handlers : Return(h)

InitZbus == Start({})

SpecZbus == InitZbus /\ [][NextZbus]_vars

(***************************************************************************)
(* Blocks written by write_effect_block, between effects set by set_effect *)
(* and brightness steps, on a controller of each kind of node.             *)
(***************************************************************************)
\* the effect set between blocks
BlockEffects == {e \in EffectInputs : e.mode = ModeNames[1] /\ e.zone = ZoneNone}

NextBlock ==
    \/ \E caps \in ZbusCapabilities, hid \in FewProbes : New(caps, hid, "rgb")
    \/ \E caps \in ZbusCapabilities : Literal(caps)
    \/ \E effect \in BlockInputs : \E fuel \in Fuels(Len(effect) + 1) : WriteEffectBlock(effect, fuel)
    \/ \E effect \in BlockEffects, fuel \in {EffectWrites - 1, EffectWrites + 1} : SetEffect(effect, fuel)
    \/ \E fuel \in Fuels(1) : NextBrightness(fuel)

SpecBlock == InitZbus /\ [][NextBlock]_vars

(***************************************************************************)
(* The methods with the device writes of an operation as steps of their    *)
(* own: the operation runs under the Mutex, its packets go to the device   *)
(* one by one, then the guard is dropped.                                  *)
(***************************************************************************)
\* the operation under the Mutex, up to its first device write
Begin(h, fuel) ==
    /\ pc[h] = "locked"
    /\ ~IsProperty(req[h].op)
    /\ LET s == zbus_operation(St, req[h], fuel)
       IN  /\ Commit(s)
           /\ last' = Last(req[h].op, s.res, 0, "-")
           /\ req' = [req EXCEPT ![h] = Request("none", NullEffect, zbus_led(s, req[h]))]
           /\ emit' = [emit EXCEPT ![h] = [pkts |-> s.writes, n |-> 0]]
    /\ pc' = [pc EXCEPT ![h] = "writing"]
    /\ cycle' = NoCycle
    /\ signal' = <<>>
    /\ ret' = <<>>
    /\ UNCHANGED <<lock, wire>>
    /\ UNCHANGED ctrlVars

\* one write_bytes (set_kbd_rgb_mode, set_brightness) of the operation
Write(h) ==
    /\ pc[h] = "writing"
    /\ emit[h].n < Len(emit[h].pkts)
    /\ emit' = [emit EXCEPT ![h].n = @ + 1]
    /\ wire' = [h |-> h, n |-> emit[h].n + 1]
    /\ signal' = <<>>
    /\ ret' = <<>>
    /\ UNCHANGED <<config, storage, per_key_mode_active, flip_effect_write, init_sent, writes,
                   last, lock, pc, req, cycle>>
    /\ UNCHANGED ctrlVars

\* the operation has returned: the guard is dropped
Release(h) ==
    /\ pc[h] = "writing"
    /\ emit[h].n = Len(emit[h].pkts)
    /\ lock' = IF lock = h THEN 0 ELSE lock
    /\ emit' = [emit EXCEPT ![h] = NoPackets]
    /\ wire' = NoWrite
    /\ pc' = [pc EXCEPT ![h] = IF req[h].led /= <<>> THEN "notify" ELSE "idle"]
    /\ signal' = <<>>
    /\ ret' = <<>>
    /\ UNCHANGED <<config, storage, per_key_mode_active, flip_effect_write, init_sent, writes,
                   last, req, cycle>>
    /\ UNCHANGED ctrlVars

\* a method of each kind: try_lock with a notification, lock, try_lock without
WireRequests ==
    { r \in ZbusRequests :
        \/ r.op = "set_led_mode" /\ r.effect.mode = ModeNames[1]
        \/ r.op \in {"next_led_mode", "next_led_brightness"} }

NextWire ==
    \/ \E caps \in ZbusCapabilities, hid \in FewProbes : New(caps, hid, "rgb")
    \/ \E h \in Handlers, r \in WireRequests : Call(h, r)
    \/ \E h \in Handlers : Acquire(h)
    \/ \E h \in Handlers, fuel \in ZbusFuels : Begin(h, fuel)
    \/ \E h \in Handlers : Write(h)
    \/ \E h \in Handlers : Release(h)
    \/ \E h \in Handlers : Notify(h)
    \/ \E h \in Handlers : Return(h)

SpecWire == InitZbus /\ [][NextWire]_vars

(***************************************************************************)
(* The property accessors, called while mode toggles are served, on a      *)
(* controller built with no storage file or from a file whose current_mode *)
(* the laptop does not support.                                            *)
(***************************************************************************)
StaleFiles ==
    { f \in LoadedFiles :
        /\ f.current_mode = UnsupportedMode
        /\ DOMAIN f.builtins = {}
        /\ f.multizone = <<>>
        /\ ~f.multizone_on
        /\ f.brightness = Off }

ToggleRequests == { r \in ZbusRequests : r.op \in {"next_led_mode", "prev_led_mode"} }

NextProps ==
    \/ \E caps \in ZbusCapabilities, hid \in FewProbes : New(caps, hid, "rgb")
    \/ \E h \in Handlers, r \in ToggleRequests \cup PropertyRequests : Call(h, r)
    \/ \E h \in Handlers : Acquire(h)
    \/ \E h \in Handlers, fuel \in ZbusFuels : Body(h, fuel)
    \/ \E h \in Handlers, fuel \in ZbusFuels, level \in DeviceLevels : Read(h, fuel, level)
    \/ \E h \in Handlers : Notify(h)
    \/ \E h \in Handlers : Return(h)

InitProps == Start(StaleFiles)

SpecProps == InitProps /\ [][NextProps]_vars

(***************************************************************************)
(* The storage file edited from outside the daemon between the operations  *)
(* of a running controller.                                                *)
(***************************************************************************)
\* contents an external edit may leave in the file
EditedFiles ==
    { AuraConfig(b, "Static", [m \in {"Static", UnsupportedMode} |-> LoadedEffect(m, ZoneNone)],
                 IF on THEN << [m \in {"Static"} |-> << LoadedEffect("Static", ZoneNames[1]) >>] >>
                 ELSE <<>>,
                 on, en) :
        b \in {Off, High},
        on \in BOOLEAN,
        en \in {<<>>, <<2, 1>>} }

\* the file is rewritten by another program
EditFile(f) ==
    /\ Usable
    /\ storage /= <<f>>
    /\ storage' = <<f>>
    /\ last' = Last("edit", "Ok", 0, "-")
    /\ writes' = <<>>
    /\ cycle' = NoCycle
    /\ UNCHANGED <<config, per_key_mode_active, flip_effect_write, init_sent>>
    /\ UNCHANGED ctrlVars /\ UNCHANGED zbusVars

NextEdit ==
    \/ \E caps \in Capabilities, hid \in FewProbes : New(caps, hid, "rgb")
    \/ \E f \in EditedFiles : EditFile(f)
    \/ \E effect \in EffectInputs, fuel \in Fuels(EffectWrites + 1) : SetEffect(effect, fuel)

SpecEdit == InitZbus /\ [][NextEdit]_vars

(***************************************************************************)
(* set_leds_enabled and set_leds_disabled.  An AuraControl is known by its *)
(* rank in the order of the enum, which is the order binary_search uses.   *)
(***************************************************************************)
AuraControls == 1..MaxControls

\* the Vec<AuraControl> a request may carry
ControlLists ==
    {<<a>> : a \in AuraControls} \cup {<<a, b>> : a \in AuraControls, b \in AuraControls}

\* Vec::remove; idx is 1-based
Remove(s, idx) == SubSeq(s, 1, idx - 1) \o SubSeq(s, idx + 1, Len(s))

\* <[T]>::binary_search as the loop that narrows [left, right): the 1-based
\* index of the element found, 0 for Err
RECURSIVE bisect(_, _, _, _)
bisect(s, x, left, right) ==
    IF left >= right THEN 0
    ELSE LET mid == left + ((right - left) \div 2)
         IN  IF s[mid + 1] < x THEN bisect(s, x, mid + 1, right)
             ELSE IF s[mid + 1] > x THEN bisect(s, x, left, mid)
             ELSE mid + 1

\* <[T]>::binary_search as the loop that halves size from a base
RECURSIVE halve(_, _, _, _)
halve(s, x, base, size) ==
    IF size > 1
    THEN LET half == size \div 2
             mid == base + half
         IN  halve(s, x, IF s[mid + 1] > x THEN base ELSE mid, size - half)
    ELSE IF s[base + 1] = x THEN base + 1 ELSE 0

\* the loops the standard library has used for binary_search; on a slice
\* that is not sorted its result is unspecified
SearchLoops == {"bisect", "halve"}

binary_search(s, x, loop) ==
    IF s = <<>> THEN 0
    ELSE IF loop = "bisect" THEN bisect(s, x, 0, Len(s))
    ELSE halve(s, x, 0, Len(s))

\* the loop of set_leds_enabled
RECURSIVE enable(_, _)
enable(enabled, list) ==
    IF list = <<>> THEN enabled
    ELSE enable(IF ~Contains(enabled, Head(list)) THEN Append(enabled, Head(list)) ELSE enabled,
                Tail(list))

\* the loop of set_leds_disabled
RECURSIVE disable(_, _, _)
disable(enabled, list, loop) ==
    IF list = <<>> THEN enabled
    ELSE LET idx == IF Contains(enabled, Head(list))
                    THEN binary_search(enabled, Head(list), loop) ELSE 0
         IN  disable(IF idx /= 0 THEN Remove(enabled, idx) ELSE enabled, Tail(list), loop)

\* CtrlKbdLed::set_power_states; tuf says whether to_tuf_bool_array gives Some
set_power_states(s, fuel, tuf) ==
    IF led_node = "KbdLed" THEN
        IF tuf THEN write_bytes(s, fuel, Packet("kbd_rgb_state", "-", 0)) ELSE s
    ELSE IF led_node = "Rog" THEN
        LET s1 == write_bytes(s, fuel, Packet("power", "-", 0))
            s2 == IF Ok(s1) THEN write_bytes(s1, fuel, LED_SET) ELSE s1
        IN  IF Ok(s2) THEN write_bytes(s2, fuel, LED_APPLY) ELSE s2
    ELSE s

\* what a method that found the Mutex taken leaves as its result
WouldBlock == "WouldBlock"

\* the part the two methods share: under the guard the list is replaced,
\* the config written and the power states sent, the error of the device
\* being logged; then the states are notified
SetLeds(op, list, fuel, tuf) ==
    /\ IF try_lock(lock) THEN
           LET s0 == [St EXCEPT !.config.enabled = list]
               s1 == set_power_states(config_write(s0), fuel, tuf)
           IN  /\ Commit(s1)
               /\ last' = Last(op, "Ok", 0, "-")
               /\ signal' = << [states |-> list] >>
       ELSE /\ last' = Last(op, WouldBlock, 0, "-")
            /\ writes' = <<>>
            /\ signal' = <<>>
            /\ UNCHANGED <<config, storage, per_key_mode_active, flip_effect_write, init_sent>>
    /\ cycle' = NoCycle
    /\ ret' = <<>>
    /\ UNCHANGED <<lock, pc, req, emit, wire>>
    /\ UNCHANGED ctrlVars

\* CtrlKbdLedZbus::set_leds_enabled
SetLedsEnabled(list, fuel, tuf) ==
    /\ built = "new"
    /\ SetLeds("set_leds_enabled", enable(config.enabled, list), fuel, tuf)

\* CtrlKbdLedZbus::set_leds_disabled
SetLedsDisabled(list, loop, fuel, tuf) ==
    /\ built = "new"
    /\ SetLeds("set_leds_disabled", disable(config.enabled, list, loop), fuel, tuf)

\* the mode toggle that holds the Mutex while the lists are changed
PowerRequests == { r \in ZbusRequests : r.op = "next_led_mode" }

NextPower ==
    \/ \E caps \in ZbusCapabilities, hid \in FewProbes : New(caps, hid, "rgb")
    \/ \E list \in ControlLists, fuel \in {0, 3}, tuf \in BOOLEAN : SetLedsEnabled(list, fuel, tuf)
    \/ \E list \in ControlLists, loop \in SearchLoops, fuel \in {0, 3}, tuf \in BOOLEAN :
            SetLedsDisabled(list, loop, fuel, tuf)
    \/ \E r \in PowerRequests : Call(1, r)
    \/ \E fuel \in ZbusFuels : Body(1, fuel)
    \/ Notify(1)

SpecPower == InitZbus /\ [][NextPower]_vars

(***************************************************************************)
(* Per-key frames between builtin effects written by set_effect,           *)
(* toggle_mode and write_current_config_mode, multizone sets included.     *)
(***************************************************************************)
\* the per-key frames of BlockInputs
PerKeyFrames == {effect \in BlockInputs : effect[1].type = PER_KEY_TYPE}

NextPerKey ==
    \/ \E caps \in Capabilities, hid \in FewProbes : New(caps, hid, "rgb")
    \/ \E effect \in PerKeyFrames : \E fuel \in {0, Len(effect) + 1} : WriteEffectBlock(effect, fuel)
    \/ \E effect \in BlockEffects, fuel \in Fuels(EffectWrites + 1) : SetEffect(effect, fuel)
    \/ \E fuel \in Fuels(ModeWrites) : ToggleMode(FALSE, fuel)
    \/ \E fuel \in Fuels(ModeWrites) : WriteCurrentConfigMode(fuel)

SpecPerKey == Init /\ [][NextPerKey]_vars

(***************************************************************************)
(* The operations that write the brightness to the device or change it in  *)
(* the config.                                                             *)
(***************************************************************************)
\* CtrlKbdLedZbus::set_brightness
SetBrightness(level, fuel) ==
    /\ built = "new"
    /\ IF try_lock(lock) THEN
           LET s == write_bytes(St, fuel, Packet("brightness", "-", level))
           IN  Commit(s) /\ last' = Last("set_brightness", s.res, 0, "-")
       ELSE /\ last' = Last("set_brightness", WouldBlock, 0, "-")
            /\ writes' = <<>>
            /\ UNCHANGED <<config, storage, per_key_mode_active, flip_effect_write, init_sent>>
    /\ cycle' = NoCycle
    /\ UNCHANGED ctrlVars /\ UNCHANGED zbusVars

NextBright ==
    \/ \E caps \in ZbusCapabilities, hid \in FewProbes : New(caps, hid, "rgb")
    \/ \E level \in DeviceLevels, fuel \in Fuels(1) : SetBrightness(level, fuel)
    \/ \E fuel \in Fuels(1) : NextBrightness(fuel)
    \/ \E fuel \in Fuels(1) : PrevBrightness(fuel)
    \/ \E effect \in BlockEffects, fuel \in {EffectWrites, EffectWrites + 1} : SetEffect(effect, fuel)
    \/ \E effect \in BlockInputs : \E fuel \in {0, Len(effect) + 1} : WriteEffectBlock(effect, fuel)

SpecBright == InitZbus /\ [][NextBright]_vars

(***************************************************************************)
(* The claims.                                                             *)
(***************************************************************************)
NotSupported == "AuraEffectNotSupported"

\* the step is a call of the operation named op
Did(op) == last'.op = op

\* what the claims call a supported effect: its mode is one of basic_modes
\* and its zone is the "no zone" sentinel or one of basic_zones
ModeAndZoneSupported(effect) ==
    /\ effect.mode \in Range(supported_modes.basic_modes)
    /\ effect.zone = ZoneNone \/ effect.zone \in Range(supported_modes.basic_zones)

\* C1: set_effect fails with EffectNotSupported whenever the effect's mode is
\* not in basic_modes, or its zone is not the sentinel and not in basic_zones;
\* then no packet is written and neither the in-memory config nor the storage
\* file changes.  An effect whose mode and zone are supported is never
\* answered with EffectNotSupported.
C1_SetEffectValidates ==
    [][\A effect \in EffectInputs, fuel \in Fuels(EffectWrites + 1) :
          (Did("set_effect") /\ SetEffect(effect, fuel)) =>
              IF ModeAndZoneSupported(effect)
              THEN last'.res /= NotSupported
              ELSE /\ last'.res = NotSupported
                   /\ writes' = <<>>
                   /\ config' = config
                   /\ storage' = storage]_vars

\* a set_effect was rejected by a laptop that has zones
C1_Witness ==
    /\ last.op = "set_effect"
    /\ last.res = NotSupported
    /\ supported_modes.basic_zones /= <<>>
    /\ writes = <<>>

\* C2: when set_effect is given a supported effect and the write of the effect
\* fails (a device write error, or NoAuraKeyboard for lack of a node), it
\* returns that error and the config is untouched: not reloaded, not changed,
\* not persisted.
C2_SetEffectWriteFailure ==
    [][\A effect \in EffectInputs, fuel \in Fuels(EffectWrites + 1) :
          ( /\ Did("set_effect")
            /\ SetEffect(effect, fuel)
            /\ ModeAndZoneSupported(effect)
            /\ led_node = "None" \/ fuel < EffectWrites )
          => /\ last'.res = IF led_node = "None" THEN "NoAuraKeyboard" ELSE "Platform"
             /\ config' = config
             /\ storage' = storage]_vars

\* the second packet of an effect failed on the raw-HID node while the storage
\* file differed from the config in memory
C2_Witness ==
    /\ last.op = "set_effect"
    /\ last.res = "Platform"
    /\ led_node = "Rog"
    /\ Len(writes) = 1
    /\ storage /= <<>>
    /\ storage[1] /= config

\* the element of basic_modes after (before, in reverse) the idx-th, wrapping
Neighbour(modes, idx, reverse) ==
    IF reverse THEN modes[((idx + Len(modes) - 2) % Len(modes)) + 1]
    ELSE modes[(idx % Len(modes)) + 1]

\* C3: with current_mode in basic_modes, one forward toggle_mode moves
\* current_mode to the next element of basic_modes, wrapping from the last to
\* the first (reverse: to the previous, wrapping from the first to the last),
\* and len(basic_modes) forward toggles in a row bring it back to its start.
C3_ToggleCycles ==
    /\ [](cycle.n = Len(supported_modes.basic_modes) /\ cycle.n >= 1
            => config.current_mode = cycle.start)
    /\ [][\A reverse \in BOOLEAN, fuel \in Fuels(ModeWrites) :
            ( /\ Did("toggle_mode")
              /\ ToggleMode(reverse, fuel)
              /\ Position(supported_modes.basic_modes, config.current_mode) /= 0 )
            => config'.current_mode =
                   Neighbour(supported_modes.basic_modes,
                             Position(supported_modes.basic_modes, config.current_mode),
                             reverse)]_vars

\* three or more forward toggles in a row went once round basic_modes
C3_Witness ==
    /\ last.op = "toggle_mode"
    /\ Len(supported_modes.basic_modes) >= 3
    /\ cycle.n = Len(supported_modes.basic_modes)
    /\ config.current_mode = cycle.start

\* C4: create_multizone_default with basic_zones empty fails with
\* EffectNotSupported and leaves the multizone map as it was.
C4_NoZonesNoDefault ==
    [][(Did("create_multizone_default") /\ CreateMultizoneDefault
            /\ supported_modes.basic_zones = <<>>)
          => /\ last'.res = NotSupported
             /\ config' = config]_vars

\* it failed on a controller that holds a multizone map
C4_Witness ==
    /\ last.op = "create_multizone_default"
    /\ last.res = NotSupported
    /\ supported_modes.basic_zones = <<>>
    /\ config.multizone /= <<>>

\* C5: create_multizone_default with basic_zones not empty succeeds and stores
\* under current_mode one effect per zone, the i-th with zone basic_zones[i]
\* and mode current_mode; the sets of the other modes are unchanged.
C5_DefaultPerZone ==
    [][(Did("create_multizone_default") /\ CreateMultizoneDefault
            /\ supported_modes.basic_zones /= <<>>)
          => /\ last'.res = "Ok"
             /\ config'.multizone /= <<>>
             /\ config.current_mode \in DOMAIN config'.multizone[1]
             /\ LET set == config'.multizone[1][config.current_mode]
                    zones == supported_modes.basic_zones
                IN  /\ Len(set) = Len(zones)
                    /\ \A i \in 1..Len(zones) :
                          set[i].zone = zones[i] /\ set[i].mode = config.current_mode
             /\ LET others == IF config.multizone = <<>> THEN {}
                              ELSE DOMAIN config.multizone[1] \ {config.current_mode}
                IN  /\ DOMAIN config'.multizone[1] = others \cup {config.current_mode}
                    /\ \A m \in others : config'.multizone[1][m] = config.multizone[1][m]
             /\ config' = [config EXCEPT !.multizone = config'.multizone]]_vars

\* a two-zone default was stored in a map that holds another mode's set
C5_Witness ==
    /\ last.op = "create_multizone_default"
    /\ last.res = "Ok"
    /\ Len(supported_modes.basic_zones) >= 2
    /\ config.multizone /= <<>>
    /\ DOMAIN config.multizone[1] \ {config.current_mode} /= {}
    /\ Len(config.multizone[1][config.current_mode]) = Len(supported_modes.basic_zones)

\* the controller state a call leaves, as the next call finds it
After(s) == [s EXCEPT !.writes = <<>>, !.res = "Ok"]

\* C6: next_brightness sets the brightness b of the config to (b+1) mod 4 and
\* prev_brightness to (b+3) mod 4; the level stays within 0..3, and
\* next_brightness followed by prev_brightness restores the level.
C6_BrightnessSteps ==
    /\ [](built \in {"new", "literal"} =>
            /\ config.brightness \in 0..3
            /\ \A f1 \in Fuels(1), f2 \in Fuels(1) :
                  prev_brightness(After(next_brightness(St, f1)), f2).config.brightness
                      = config.brightness)
    /\ [][/\ \A fuel \in Fuels(1) :
               (Did("next_brightness") /\ NextBrightness(fuel))
               => config'.brightness = (config.brightness + 1) % 4
          /\ \A fuel \in Fuels(1) :
               (Did("prev_brightness") /\ PrevBrightness(fuel))
               => config'.brightness = (config.brightness + 3) % 4]_vars

\* next_brightness wrapped from level 3 to level 0
C6_Witness ==
    /\ last.op = "next_brightness"
    /\ config.brightness = Off
    /\ storage /= <<>> /\ storage[1].brightness = Off

\* C7: with multizone_on set, no stored set for current_mode and basic_zones
\* not empty, write_current_config_mode stores the default set of
\* current_mode (one effect per zone, in the order of basic_zones) before it
\* writes to the device: the set is there after the call whatever the result.
C7_DefaultBeforeWrite ==
    [][\A fuel \in Fuels(ModeWrites) :
          ( /\ Did("write_current_config_mode")
            /\ WriteCurrentConfigMode(fuel)
            /\ config.multizone_on
            /\ config.multizone = <<>> \/ config.current_mode \notin DOMAIN config.multizone[1]
            /\ supported_modes.basic_zones /= <<>> )
          => /\ config'.multizone /= <<>>
             /\ config.current_mode \in DOMAIN config'.multizone[1]
             /\ LET set == config'.multizone[1][config.current_mode]
                    zones == supported_modes.basic_zones
                IN  /\ Len(set) = Len(zones)
                    /\ \A i \in 1..Len(zones) : set[i].zone = zones[i]]_vars

\* the write failed for lack of a device node and the two-zone set is stored
C7_Witness ==
    /\ last.op = "write_current_config_mode"
    /\ last.res = "NoAuraKeyboard"
    /\ writes = <<>>
    /\ config.multizone_on
    /\ config.multizone /= <<>>
    /\ config.current_mode \in DOMAIN config.multizone[1]
    /\ Len(config.multizone[1][config.current_mode]) = 2

\* C8: the builtins of the controller new returns have exactly the modes of
\* basic_modes as keys, each with the loaded entry when the storage file has
\* one for the mode and with the fresh default otherwise.
C8_MergedBuiltins ==
    (last.op = "new" /\ last.res = "Ok") =>
        /\ DOMAIN config.builtins = Range(supported_modes.basic_modes)
        /\ \A m \in Range(supported_modes.basic_modes) :
              config.builtins[m] =
                  IF storage /= <<>> /\ m \in DOMAIN storage[1].builtins
                  THEN storage[1].builtins[m]
                  ELSE DefaultEffect(m)

\* new merged a file that holds a mode the laptop lacks and lacks one it has
C8_Witness ==
    /\ last.op = "new" /\ last.res = "Ok"
    /\ storage /= <<>>
    /\ DOMAIN storage[1].builtins \ Range(supported_modes.basic_modes) /= {}
    /\ Range(supported_modes.basic_modes) \ DOMAIN storage[1].builtins /= {}
    /\ Range(supported_modes.basic_modes) \cap DOMAIN storage[1].builtins /= {}

\* C9: new fails with NoAuraKeyboard whenever no raw-HID node opens and the
\* sysfs LED node cannot be opened or opens without RGB-mode control.
C9_NoPathNoAuraKeyboard ==
    (last.op = "new" /\ last.usb = 0 /\ last.sysfs \in {"err", "plain"}) =>
        /\ built = "failed"
        /\ last.res = "NoAuraKeyboard"

\* C10: a mutating request (set effect, toggle mode, brightness step) that
\* arrives while another handler holds the controller's lock waits for the
\* lock and is then executed: none is dropped because the lock was held.
C10_NoRequestDropped ==
    \A h \in Handlers : pc[h] /= "dropped"

\* C11: a property accessor (leds_enabled, led_mode, led_modes,
\* led_brightness) never waits for the Mutex, always returns a value and
\* leaves the controller as it was; it returns its sentinel when the Mutex is
\* held, when the current mode has no builtin (led_mode) and when the
\* brightness cannot be read (led_brightness).
C11_PropertiesDegrade ==
    /\ [](\A h \in Handlers : pc[h] = "waiting" => ~IsProperty(req[h].op))
    /\ [][\A h \in Handlers, r \in PropertyRequests :
            /\ Call(h, r) =>
                 /\ pc'[h] /= "waiting"
                 /\ lock /= 0 => ret' = <<Returned(r.op, Sentinel(r.op))>>
                 /\ UNCHANGED <<config, storage, per_key_mode_active, flip_effect_write>>
            /\ \A fuel \in ZbusFuels, level \in DeviceLevels :
                 (req[h] = r /\ Read(h, fuel, level)) =>
                    /\ ret' /= <<>>
                    /\ ret'[1].op = r.op
                    /\ (r.op = "led_mode" /\ config.current_mode \notin DOMAIN config.builtins)
                          => ret'[1].value = [message |-> "SetKeyBacklight could not deserialise"]
                    /\ (r.op = "led_brightness" /\ fuel = 0) => ret'[1].value = [level |-> -1]
                    /\ (r.op = "led_brightness" /\ fuel /= 0) => ret'[1].value = [level |-> level]
                    /\ pc'[h] = "idle"
                    /\ UNCHANGED <<config, storage, per_key_mode_active, flip_effect_write>>]_vars

\* an accessor called while another handler holds the Mutex has returned its sentinel
C11_Witness ==
    \E h \in Handlers :
        /\ pc[h] = "dropped"
        /\ lock \notin {0, h}
        /\ ret /= <<>>
        /\ ret[1].value = Sentinel(ret[1].op)

\* C12: the packets of one operation go to the device while its handler
\* holds the Mutex, and no packet of another operation comes between them:
\* a handler that is writing holds the Mutex, no other handler is writing,
\* and each packet after the first follows the packet before it of the same
\* operation.
C12_WritesNotInterleaved ==
    /\ [](\A h \in Handlers : pc[h] = "writing" => lock = h)
    /\ [][\A h \in Handlers :
            Write(h) =>
                /\ lock = h /\ lock' = h
                /\ \A g \in Handlers \ {h} : pc[g] /= "writing" /\ emit[g] = NoPackets
                /\ wire'.n > 1 => wire = [h |-> h, n |-> wire'.n - 1]]_vars

\* a handler is in the middle of a sequence of several packets while another waits for the Mutex
C12_Witness ==
    \E h \in Handlers, g \in Handlers :
        /\ wire = [h |-> h, n |-> 2]
        /\ Len(emit[h].pkts) > 2
        /\ pc[g] = "waiting"

\* C13: every mutating method whose operation succeeds emits a notification
\* carrying the new state: the handler leaves the Mutex with an effect to
\* notify.
C13_SuccessNotifies ==
    [][\A h \in Handlers, fuel \in ZbusFuels :
          (Body(h, fuel) /\ last'.res = "Ok") =>
              /\ pc'[h] = "notify"
              /\ req'[h].led = current_builtin(config')]_vars

\* C14: set_effect, toggle_mode, next_brightness and prev_brightness write
\* the config to storage only after all their device writes succeeded: when
\* the operation returns an error, the stored config is what it was before.
C14_PersistAfterWrites ==
    [][(/\ Operation
        /\ last'.op \in {"set_effect", "toggle_mode", "next_brightness", "prev_brightness"}
        /\ last'.res /= "Ok")
          => storage' = storage]_vars

\* C15: in a constructed controller, whatever the storage file held and
\* whatever operations followed, current_mode is a key of builtins.
C15_CurrentModeInBuiltins ==
    built = "new" => config.current_mode \in DOMAIN config.builtins

\* C16: in the controller new returns for a laptop with zones, the set
\* stored under a mode of the multizone map is the complete set the storage
\* file held for that mode, all of its effects being of supported modes, or
\* the fresh default of the mode, never a filtered part of the loaded set.
C16_MultizoneAllOrNothing ==
    (/\ last.op = "new" /\ built = "new"
     /\ supported_modes.basic_zones /= <<>>
     /\ storage /= <<>> /\ config.multizone /= <<>>) =>
        \A m \in DOMAIN config.multizone[1] :
            LET loaded == storage[1].multizone
                set == config.multizone[1][m]
            IN  \/ set = MultizoneDefault(m, supported_modes.basic_zones)
                \/ /\ loaded /= <<>>
                   /\ m \in DOMAIN loaded[1]
                   /\ set = loaded[1][m]
                   /\ \A i \in 1..Len(set) : Contains(supported_modes.basic_modes, set[i].mode)

\* C17: in a constructed controller, whatever the storage file held and
\* whatever operations followed, every mode of the multizone map, when there
\* is one, holds exactly len(basic_zones) effects.
C17_MultizoneOnePerZone ==
    (built = "new" /\ config.multizone /= <<>>) =>
        \A m \in DOMAIN config.multizone[1] :
            Len(config.multizone[1][m]) = Len(supported_modes.basic_zones)

\* the packets of the rows of a block on the raw-HID node, in order
RowPackets(effect) == [i \in 1..Len(effect) |-> Packet("row", "-", effect[i].i)]

\* C18: on the raw-HID node, a per-key frame received while
\* per_key_mode_active is false writes the initialization packet and then
\* its rows in order, a frame received while it is true writes its rows
\* alone, a failed write ending the sequence; so a row is only written when
\* the initialization packet was written since per-key mode was last left.
C18_PerKeyHandshake ==
    /\ [][\A effect \in BlockInputs : \A fuel \in Fuels(Len(effect) + 1) :
            (/\ led_node = "Rog"
             /\ effect[1].type = PER_KEY_TYPE
             /\ WriteEffectBlock(effect, fuel)) =>
                LET all == IF per_key_mode_active THEN RowPackets(effect)
                           ELSE <<INIT_MSG>> \o RowPackets(effect)
                    k == IF fuel < Len(all) THEN fuel ELSE Len(all)
                IN  /\ writes' = SubSeq(all, 1, k)
                    /\ last'.res = "Ok" <=> k = Len(all)]_vars
    /\ [][(/\ led_node = "Rog"
           /\ Did("write_effect_block")
           /\ \E i \in 1..Len(writes') : writes'[i].kind = "row")
             => init_sent']_vars

\* a frame was written on the raw-HID node with per-key mode already entered: rows and no initialization packet
C18_Witness ==
    /\ led_node = "Rog"
    /\ last.op = "write_effect_block"
    /\ last.res = "Ok"
    /\ Len(writes) = MaxRows
    /\ writes[1].kind = "row"
    /\ init_sent

\* C19: write_effect_block called with brightness Off raises it to Med and
\* persists the config whatever becomes of the packets, even when the first
\* write fails; called with another brightness it changes neither the config
\* nor the stored file; after the call brightness is not Off.
C19_BlockRaisesBrightness ==
    /\ [][\A effect \in BlockInputs : \A fuel \in Fuels(Len(effect) + 1) :
            WriteEffectBlock(effect, fuel) =>
                IF config.brightness = Off
                THEN /\ config' = [config EXCEPT !.brightness = Med]
                     /\ storage' = <<config'>>
                ELSE /\ config' = config
                     /\ storage' = storage]_vars
    /\ [](last.op = "write_effect_block" => config.brightness /= Off)

\* a block whose first write failed has left brightness Med in the config and in the stored file
C19_Witness ==
    /\ last.op = "write_effect_block"
    /\ last.res /= "Ok"
    /\ writes = <<>>
    /\ config.brightness = Med
    /\ storage = <<config>>

\* the effects write_current_config_mode applies under the config: the set
\* stored for the current mode when multizone is on, else the mode's builtin
EffectsToWrite ==
    IF config.multizone_on THEN
        IF config.multizone /= <<>> /\ config.current_mode \in DOMAIN config.multizone[1]
        THEN config.multizone[1][config.current_mode] ELSE <<>>
    ELSE IF config.current_mode \in DOMAIN config.builtins
         THEN <<config.builtins[config.current_mode]>> ELSE <<>>

\* the packets of the effects on the raw-HID node: message, set, apply for each
ExpectedPackets(effects) ==
    [i \in 1..(3 * Len(effects)) |->
        IF i % 3 = 1 THEN Packet("effect", effects[(i + 2) \div 3].zone, 0)
        ELSE IF i % 3 = 2 THEN LED_SET
        ELSE LED_APPLY]

\* the packets are those of the effects up to the first write that fails,
\* and the failure is the result
WrittenUntilFailure(effects, fuel) ==
    LET all == ExpectedPackets(effects)
    IN  /\ fuel < Len(all) => writes' = SubSeq(all, 1, fuel) /\ last'.res = "Platform"
        /\ fuel >= Len(all) => writes' = all
        /\ fuel >= Len(all) /\ effects /= <<>> => last'.res = "Ok"

\* C20: on the raw-HID node one builtin effect is written as its message,
\* the set command and the apply command, in this order; when a write fails
\* no later packet of the operation is written, the error is returned, and
\* a multizone set stops at the zone whose write failed.
C20_EffectSetApply ==
    /\ [][\A fuel \in Fuels(ModeWrites) :
            (led_node = "Rog" /\ WriteCurrentConfigMode(fuel))
                => WrittenUntilFailure(EffectsToWrite', fuel)]_vars
    /\ [][\A effect \in EffectInputs : \A fuel \in Fuels(EffectWrites + 1) :
            (led_node = "Rog" /\ ModeAndZoneSupported(effect) /\ SetEffect(effect, fuel))
                => IF fuel < 3 THEN WrittenUntilFailure(<<effect>>, fuel)
                   ELSE SubSeq(writes', 1, 3) = ExpectedPackets(<<effect>>)]_vars

\* a multizone set on the raw-HID node stopped inside its second zone
C20_Witness ==
    /\ led_node = "Rog"
    /\ last.op = "write_current_config_mode"
    /\ last.res = "Platform"
    /\ config.multizone_on
    /\ Len(EffectsToWrite) = 2
    /\ writes = SubSeq(ExpectedPackets(EffectsToWrite), 1, 4)

\* handler h runs the body of a mode toggle in this step
TogglesMode(h) ==
    /\ pc[h] = "locked"
    /\ req[h].op \in {"next_led_mode", "prev_led_mode"}
    /\ pc'[h] /= "locked"

\* C21: toggle_mode, forward or reverse, called while current_mode is not
\* in basic_modes returns Ok and does nothing: no device write, no reload of
\* the config from storage, no persist, and the config and the per-key flags
\* are unchanged.
C21_ToggleUnknownModeNoOp ==
    [][\A h \in Handlers :
        (TogglesMode(h) /\ ~Contains(supported_modes.basic_modes, config.current_mode)) =>
            /\ last'.res = "Ok"
            /\ writes' = <<>>
            /\ config' = config
            /\ storage' = storage
            /\ per_key_mode_active' = per_key_mode_active
            /\ flip_effect_write' = flip_effect_write]_vars

\* a toggle has returned on a controller whose current_mode is unsupported
\* and whose config differs from the stored file
C21_Witness ==
    /\ last.op \in {"next_led_mode", "prev_led_mode"}
    /\ last.res = "Ok"
    /\ ~Contains(supported_modes.basic_modes, config.current_mode)
    /\ storage /= <<>>
    /\ storage[1] /= config

\* C22: when a mode toggle fails at its device write the change is dropped:
\* the controller's current_mode is the one it had before the request, and
\* the notification of the request, if any, does not carry the new mode.
C22_FailedToggleDropped ==
    [][\A h \in Handlers :
        (TogglesMode(h) /\ last'.res /= "Ok") =>
            /\ config'.current_mode = config.current_mode
            /\ req'[h].led /= <<>> => req'[h].led[1].mode = config.current_mode]_vars

\* C23: a set_effect that succeeds changes in the stored config only the
\* builtins entry of the effect's mode, current_mode and brightness (from
\* Off to Med): enabled, the builtins of the other modes, multizone and
\* multizone_on are those the file held right before the call, values
\* written there by an external edit included.
C23_SetEffectKeepsOtherFields ==
    [][\A effect \in EffectInputs : \A fuel \in Fuels(EffectWrites + 1) :
        (SetEffect(effect, fuel) /\ last'.res = "Ok" /\ storage /= <<>>) =>
            /\ storage' /= <<>>
            /\ LET old == storage[1]
                   new == storage'[1]
               IN  /\ new.enabled = old.enabled
                   /\ new.multizone = old.multizone
                   /\ new.multizone_on = old.multizone_on
                   /\ DOMAIN new.builtins = DOMAIN old.builtins \cup {effect.mode}
                   /\ \A m \in DOMAIN old.builtins \ {effect.mode} :
                        new.builtins[m] = old.builtins[m]
                   /\ new.builtins[effect.mode] = effect
                   /\ new.current_mode = effect.mode
                   /\ new.brightness = IF old.brightness = Off THEN Med ELSE old.brightness]_vars

\* an effect was set after an edit of the file: the stored config holds the
\* effect and the edited fields, which the config built by new never held
C23_Witness ==
    /\ last.op = "set_effect"
    /\ last.res = "Ok"
    /\ storage /= <<>>
    /\ storage[1].enabled = <<2, 1>>
    /\ UnsupportedMode \in DOMAIN storage[1].builtins
    /\ storage[1].builtins["Static"].colour1 = "USER"

\* C24: when a raw-HID node opens for some product of ASUS_KEYBOARD_DEVICES,
\* new succeeds with the raw-HID node of the first such product as its
\* node, whether or not the sysfs LED node can be opened; the sysfs node is
\* the controller's node only when no raw-HID node opened.
C24_RawHidFirst ==
    /\ (last.op = "new" /\ last.usb /= 0) =>
            /\ built = "new"
            /\ last.res = "Ok"
            /\ led_node = "Rog"
            /\ led_prod = ASUS_KEYBOARD_DEVICES[last.usb]
    /\ (last.op = "new" /\ led_node = "KbdLed") => last.usb = 0

\* the list holds no value twice
NoDuplicates(s) == \A i \in 1..Len(s) : \A j \in 1..Len(s) : s[i] = s[j] => i = j

\* C25: the enabled list, free of duplicates at first, stays free of
\* duplicates under set_leds_enabled and set_leds_disabled, and right after a
\* set_leds_disabled(S) that took the Mutex no element of S is in the list,
\* in whatever order the list was filled.
C25_DisabledAreRemoved ==
    /\ [](built = "new" => NoDuplicates(config.enabled))
    /\ [][\A list \in ControlLists : \A loop \in SearchLoops :
            \A fuel \in {0, 3} : \A tuf \in BOOLEAN :
            (SetLedsDisabled(list, loop, fuel, tuf) /\ last'.res = "Ok") =>
                \A i \in 1..Len(list) : ~Contains(config'.enabled, list[i])]_vars

\* the step is one of the operations that write builtin effects
WritesBuiltin ==
    Did("set_effect") \/ Did("toggle_mode") \/ Did("write_current_config_mode")

\* a write_mode of the step has made its last write
EffectWritten ==
    \E i \in 1..Len(writes') : writes'[i] = LED_APPLY \/ writes'[i].kind = "kbd_rgb_mode"

\* C26: a builtin effect written with success through set_effect,
\* toggle_mode or write_current_config_mode leaves per_key_mode_active
\* false, and one whose write fails leaves the flag as it was; the flag is
\* raised by write_effect_block alone, so the first per-key frame after a
\* builtin effect was written starts with the initialization packet.
C26_BuiltinLeavesPerKey ==
    /\ [][(WritesBuiltin /\ EffectWritten) => ~per_key_mode_active']_vars
    /\ [][(WritesBuiltin /\ ~EffectWritten) => per_key_mode_active' = per_key_mode_active]_vars
    /\ [][(per_key_mode_active' /\ ~per_key_mode_active) => Did("write_effect_block")]_vars
    /\ [][(/\ Did("write_effect_block")
           /\ led_node = "Rog"
           /\ ~per_key_mode_active
           /\ writes' /= <<>>) => writes'[1] = INIT_MSG]_vars

\* a mode toggle has written its effect after a whole per-key frame: the flag is down
C26_Witness ==
    /\ led_node = "Rog"
    /\ last.op = "toggle_mode"
    /\ last.res = "Ok"
    /\ writes /= <<>>
    /\ flip_effect_write
    /\ ~per_key_mode_active

\* the level of the last brightness packet among the writes, as <<level>>,
\* <<>> when there is none
RECURSIVE LastLevel(_)
LastLevel(w) ==
    IF w = <<>> THEN <<>>
    ELSE IF w[Len(w)].kind = "brightness" THEN <<w[Len(w)].level>>
    ELSE LastLevel(SubSeq(w, 1, Len(w) - 1))

\* C27: after set_brightness, next_brightness, prev_brightness, set_effect
\* or write_effect_block has returned Ok, the brightness of the config is
\* the level last written to the device (by this operation or, when it
\* wrote none, by the one before).
C27_BrightnessMatchesDevice ==
    [][(/\ \/ Did("set_brightness") \/ Did("next_brightness") \/ Did("prev_brightness")
           \/ Did("set_effect") \/ Did("write_effect_block")
        /\ last'.res = "Ok") =>
            LET dev == IF LastLevel(writes') /= <<>> THEN LastLevel(writes') ELSE LastLevel(writes)
            IN  dev /= <<>> => config'.brightness = dev[1]]_vars
====
